---- MODULE Spec2Model ----
(***************************************************************************)
(* Rule-based expert system for smartphone diagnosis: the forward-chaining *)
(* inference engine (inference_engine/forward_chaining.py).                *)
(*                                                                         *)
(* Certainty factors are exact rationals scaled by 100 (0.88 is 88), so a  *)
(* score of 1.0 is 100.  Timestamps of trace events are not modelled.      *)
(***************************************************************************)
EXTENDS Integers, Sequences, FiniteSets, TLC

VARIABLES
    rules,             \* self.rules: the rule file's entries, in file (dict) order
    working_memory,    \* self.working_memory
    inferred_facts,    \* self.inferred_facts
    fired_rules,       \* self.fired_rules
    reasoning_trace,   \* self.reasoning_trace
    diagnosis_scores,  \* self.diagnosis_scores, in insertion (dict) order
    pc,                \* position of the caller inside forward_chain
    iteration,         \* forward_chain's local  iteration
    new_facts_added,   \* forward_chain's local  new_facts_added
    max_iterations,    \* forward_chain's argument
    results,           \* the dictionary forward_chain has just returned
    peer,              \* a second engine constructed from the same rule file,
                       \* with its caller's position, locals and results
    bc,                \* a BackwardChaining engine constructed from the same
                       \* rule file, with its caller's last call and the
                       \* calls its question callback received
    calc,              \* the last call of a CertaintyFactor function: its
                       \* arguments and what it returned or raised
    construction,      \* the kind of rule file the engines were constructed
                       \* from, and the exception construction raised, if any
    held               \* a dictionary forward_chain returned that the caller
                       \* has kept, as it read at the return

vars == <<rules, working_memory, inferred_facts, fired_rules, reasoning_trace,
          diagnosis_scores, pc, iteration, new_facts_added, max_iterations,
          results, peer, bc, calc, construction, held>>

-----------------------------------------------------------------------------
(* Bounds *)

MaxRules == 3
MaxIter == 2
MaxDepth == 2
Steps == 5
MaxLen == 3

-----------------------------------------------------------------------------
(* Facts and the rule files the engine is constructed from *)

S1 == "touchscreen_tidak_respons"
S2 == "layar_tampil_normal"
D1 == "kerusakan_touchscreen_digitizer"
D2 == "kemungkinan_ram_penuh"
D3 == "Masalah_IC_Power"
Empty == ""

Facts == {S1, S2, D1, D2, D3, Empty}

\* Facts a caller passes to add_facts.
InputFacts == {S1, S2}

\* The characters of a fact identifier.
Chars(f) ==
  CASE f = "touchscreen_tidak_respons" -> <<"t","o","u","c","h","s","c","r","e","e","n","_","t","i","d","a","k","_","r","e","s","p","o","n","s">>
    [] f = "layar_tampil_normal" -> <<"l","a","y","a","r","_","t","a","m","p","i","l","_","n","o","r","m","a","l">>
    [] f = "kerusakan_touchscreen_digitizer" -> <<"k","e","r","u","s","a","k","a","n","_","t","o","u","c","h","s","c","r","e","e","n","_","d","i","g","i","t","i","z","e","r">>
    [] f = "kemungkinan_ram_penuh" -> <<"k","e","m","u","n","g","k","i","n","a","n","_","r","a","m","_","p","e","n","u","h">>
    [] f = "Masalah_IC_Power" -> <<"M","a","s","a","l","a","h","_","I","C","_","P","o","w","e","r">>
    [] f = "" -> <<>>

\* A rule entry: its key and its IF, THEN and CF fields.
Rule(id, conds, concl, cf) == [id |-> id, If |-> conds, Then |-> concl, Cf |-> cf]

\* Candidate entries of knowledge_base/rules.json.  R6 is the touchscreen
\* rule; R2/R3 form a cycle; R7 concludes a fact a caller also reports as a
\* symptom; R5 is an entry a hand-edited file can hold (the engine loads the
\* file without validating it).
Catalog ==
    { Rule("R1", <<S1>>, D2, 70),
      Rule("R2", <<D3>>, D1, 70),
      Rule("R3", <<D1>>, D3, 70),
      Rule("R4", <<S2>>, D3, 100),
      Rule("R5", <<>>, Empty, 70),
      Rule("R6", <<S1, S2>>, D1, 88),
      Rule("R7", <<S1>>, S2, 60) }

Range(s) == {s[i] : i \in DOMAIN s}

\* Rule files: up to MaxRules distinct entries of the catalog, in any order.
RuleSets ==
    UNION { { rs \in [1..n -> Catalog] :
                \A i, j \in 1..n : i # j => rs[i] # rs[j] } : n \in 0..MaxRules }

\* The caller's calls append at most this many events to the trace of a
\* session; the rules forward_chain fires come on top.
TraceCap == Cardinality(InputFacts)

\* Argument lists of add_facts.
FactLists == UNION { [1..n -> InputFacts] : n \in 1..TraceCap }

-----------------------------------------------------------------------------
(* The engine object *)

Engine ==
    [working_memory |-> working_memory, inferred_facts |-> inferred_facts,
     fired_rules |-> fired_rules, reasoning_trace |-> reasoning_trace,
     diagnosis_scores |-> diagnosis_scores]

SetEngine(e) ==
    /\ working_memory' = e.working_memory
    /\ inferred_facts' = e.inferred_facts
    /\ fired_rules' = e.fired_rules
    /\ reasoning_trace' = e.reasoning_trace
    /\ diagnosis_scores' = e.diagnosis_scores

\* __init__: the state after construction.
NewEngine ==
    [working_memory |-> {}, inferred_facts |-> {}, fired_rules |-> <<>>,
     reasoning_trace |-> <<>>, diagnosis_scores |-> <<>>]

\* A session: an engine, where its caller stands, the locals of
\* forward_chain and what it returned.
NewSession ==
    [eng |-> NewEngine, pc |-> "idle", iteration |-> 0,
     new_facts_added |-> FALSE, max_iterations |-> 0, results |-> <<>>]

\* reset()
reset(e) == NewEngine

FactAdded(f) == [type |-> "fact_added", fact |-> f]

RECURSIVE add_facts(_, _)

\* add_facts putting each event at the head of the trace.
add_facts_at_head(e, facts) ==
    IF facts = <<>> THEN e
    ELSE add_facts([e EXCEPT !.working_memory = @ \cup {Head(facts)},
                             !.reasoning_trace = <<FactAdded(Head(facts))>> \o @],
                   Tail(facts))

add_facts(e, facts) ==
    IF facts = <<>> THEN e
    ELSE add_facts([e EXCEPT !.working_memory = @ \cup {Head(facts)},
                             !.reasoning_trace = Append(@, FactAdded(Head(facts)))],
                   Tail(facts))

\* can_fire_rule with the membership test negated.
can_fire_rule_negated(e, rule) ==
    LET all_facts == e.working_memory \cup e.inferred_facts
    IN  \A i \in DOMAIN rule.If : rule.If[i] \notin all_facts

\* can_fire_rule with any(...) where the code has all(...).
can_fire_rule_any(e, rule) ==
    LET all_facts == e.working_memory \cup e.inferred_facts
    IN  \E i \in DOMAIN rule.If : rule.If[i] \in all_facts

\* can_fire_rule made to depend on the order the facts were added in: the
\* rule's first condition must be the first fact of the trace.
can_fire_rule_first_added(e, rule) ==
    LET all_facts == e.working_memory \cup e.inferred_facts
    IN  /\ \A i \in DOMAIN rule.If : rule.If[i] \in all_facts
        /\ rule.If # <<>> /\ e.reasoning_trace # <<>>
              => e.reasoning_trace[1].type = "fact_added"
                 /\ e.reasoning_trace[1].fact = rule.If[1]

can_fire_rule(e, rule) ==
    LET all_facts == e.working_memory \cup e.inferred_facts
    IN  \A i \in DOMAIN rule.If : rule.If[i] \in all_facts

\* diagnosis_scores is a defaultdict(float): keys in insertion order.
ScoreKeys(ds) == {ds[i].diagnosis : i \in DOMAIN ds}

ScoreOf(ds, c) ==
    IF c \in ScoreKeys(ds)
    THEN ds[CHOOSE i \in DOMAIN ds : ds[i].diagnosis = c].score
    ELSE 0

\* diagnosis_scores[conclusion] = cf where the code has +=.
AddScore_overwrite(ds, c, cf) ==
    IF c \in ScoreKeys(ds)
    THEN [i \in DOMAIN ds |->
            IF ds[i].diagnosis = c
            THEN [diagnosis |-> c, score |-> cf]
            ELSE ds[i]]
    ELSE Append(ds, [diagnosis |-> c, score |-> cf])

\* self.diagnosis_scores[conclusion] += cf
AddScore(ds, c, cf) ==
    IF c \in ScoreKeys(ds)
    THEN [i \in DOMAIN ds |->
            IF ds[i].diagnosis = c
            THEN [diagnosis |-> c, score |-> ds[i].score + cf]
            ELSE ds[i]]
    ELSE Append(ds, [diagnosis |-> c, score |-> cf])

RuleFired(rule_id, rule) ==
    [type |-> "rule_fired", rule_id |-> rule_id, conditions |-> rule.If,
     conclusion |-> rule.Then, cf |-> rule.Cf]

\* fire_rule keeping only the newest conclusion in inferred_facts.
fire_rule_replacing(e, rule_id, rule) ==
    IF rule_id \in Range(e.fired_rules)
    THEN [eng |-> e, ret |-> <<>>]
    ELSE [eng |-> [e EXCEPT
                     !.inferred_facts = {rule.Then},
                     !.fired_rules = Append(@, rule_id),
                     !.diagnosis_scores = AddScore(@, rule.Then, rule.Cf),
                     !.reasoning_trace = Append(@, RuleFired(rule_id, rule))],
          ret |-> <<rule.Then>>]

\* fire_rule without its test of fired_rules.
fire_rule_unguarded(e, rule_id, rule) ==
    [eng |-> [e EXCEPT
                !.inferred_facts = @ \cup {rule.Then},
                !.fired_rules = Append(@, rule_id),
                !.diagnosis_scores = AddScore(@, rule.Then, rule.Cf),
                !.reasoning_trace = Append(@, RuleFired(rule_id, rule))],
     ret |-> <<rule.Then>>]

\* fire_rule(rule_id, rule): the engine afterwards and the value returned,
\* <<>> for None and <<conclusion>> otherwise.
fire_rule(e, rule_id, rule) ==
    IF rule_id \in Range(e.fired_rules)
    THEN [eng |-> e, ret |-> <<>>]
    ELSE [eng |-> [e EXCEPT
                     !.inferred_facts = @ \cup {rule.Then},
                     !.fired_rules = Append(@, rule_id),
                     !.diagnosis_scores = AddScore(@, rule.Then, rule.Cf),
                     !.reasoning_trace = Append(@, RuleFired(rule_id, rule))],
          ret |-> <<rule.Then>>]

\* Python truth value of what fire_rule returned: None and "" are false.
Truthy(ret) == ret # <<>> /\ ret[1] # ""

\* One pass of forward_chain's for loop, from the i-th rule on.
RECURSIVE ForEachRule(_, _, _, _)

\* The pass over the rules with a flag that a rule which cannot fire
\* clears again.
ForEachRule_clearing_flag(rs, e, i, added) ==
    IF i > Len(rs) THEN [eng |-> e, new_facts_added |-> added]
    ELSE IF rs[i].id \in Range(e.fired_rules)
         THEN ForEachRule(rs, e, i + 1, added)
         ELSE IF can_fire_rule(e, rs[i])
              THEN LET f == fire_rule(e, rs[i].id, rs[i])
                   IN  ForEachRule(rs, f.eng, i + 1, added \/ Truthy(f.ret))
              ELSE ForEachRule(rs, e, i + 1, FALSE)

ForEachRule(rs, e, i, added) ==
    IF i > Len(rs) THEN [eng |-> e, new_facts_added |-> added]
    ELSE IF rs[i].id \in Range(e.fired_rules)
         THEN ForEachRule(rs, e, i + 1, added)
         ELSE IF can_fire_rule(e, rs[i])
              THEN LET f == fire_rule(e, rs[i].id, rs[i])
                   IN  ForEachRule(rs, f.eng, i + 1, added \/ Truthy(f.ret))
              ELSE ForEachRule(rs, e, i + 1, added)

-----------------------------------------------------------------------------
(* _get_final_diagnoses *)

final_diagnosis_keywords ==
    << <<"k","e","r","u","s","a","k","a","n">>,
       <<"m","a","s","a","l","a","h">>,
       <<"d","e","g","r","a","d","a","s","i">>,
       <<"r","u","s","a","k">>,
       <<"a","p","l","i","k","a","s","i">>,
       <<"m","a","l","w","a","r","e">>,
       <<"s","t","o","r","a","g","e">>,
       <<"t","i","n","d","a","k","a","n">> >>

UpperCase == <<"A","B","C","D","E","F","G","H","I","J","K","L","M",
               "N","O","P","Q","R","S","T","U","V","W","X","Y","Z">>
LowerCase == <<"a","b","c","d","e","f","g","h","i","j","k","l","m",
               "n","o","p","q","r","s","t","u","v","w","x","y","z">>

\* str.lower()
lower(cs) ==
    [i \in DOMAIN cs |->
        IF \E k \in DOMAIN UpperCase : UpperCase[k] = cs[i]
        THEN LowerCase[CHOOSE k \in DOMAIN UpperCase : UpperCase[k] = cs[i]]
        ELSE cs[i]]

\* keyword in text
Contains(text, keyword) ==
    \E k \in 0..(Len(text) - Len(keyword)) :
        SubSeq(text, k + 1, k + Len(keyword)) = keyword

is_final(diagnosis) ==
    \E k \in DOMAIN final_diagnosis_keywords :
        Contains(lower(Chars(diagnosis)), final_diagnosis_keywords[k])

Min(a, b) == IF a <= b THEN a ELSE b

DiagnosisEntry(d) ==
    [diagnosis |-> d.diagnosis, confidence |-> Min(d.score, 100),
     percentage |-> Min(d.score, 100)]

\* list.sort(key=confidence, reverse=True): stable, so entries of equal
\* confidence keep their order.
RECURSIVE InsertByConfidence(_, _)
InsertByConfidence(sorted, x) ==
    IF sorted = <<>> THEN <<x>>
    ELSE IF Head(sorted).confidence >= x.confidence
         THEN <<Head(sorted)>> \o InsertByConfidence(Tail(sorted), x)
         ELSE <<x>> \o sorted

\* The list left as it was built, the sort missing.
SortByConfidence_unsorted(s) == s

RECURSIVE SortByConfidence(_)
SortByConfidence(s) ==
    IF s = <<>> THEN <<>>
    ELSE InsertByConfidence(SortByConfidence(SubSeq(s, 1, Len(s) - 1)), s[Len(s)])

get_final_diagnoses(e) ==
    LET ds == e.diagnosis_scores
        final == SelectSeq(ds, LAMBDA d : is_final(d.diagnosis))
        diagnoses == [i \in DOMAIN final |-> DiagnosisEntry(final[i])]
    IN  SortByConfidence(diagnoses)

\* The dictionary forward_chain returns.  Its 'fired_rules' and
\* 'reasoning_trace' entries are the engine's own lists, not copies.
\* 'initial_facts' and 'inferred_facts' are lists in set-iteration order,
\* kept here as the sets they list.
CompileResults(e, iter) ==
    [iterations |-> iter,
     initial_facts |-> e.working_memory,
     inferred_facts |-> e.inferred_facts,
     diagnosis_scores |-> e.diagnosis_scores,
     final_diagnoses |-> get_final_diagnoses(e)]

-----------------------------------------------------------------------------
(* The backward-chaining engine (inference_engine/backward_chaining.py) *)

\* __init__: the state after construction.  question_callback is None
\* (FALSE) until set_question_callback is called.  oracle_calls is kept by
\* the callback: the questions it has been called with since the last
\* reset.  ret is what the caller's last call returned.
NoReturn == [op |-> "none"]

NoCalc == [op |-> "none"]

Returns(op, value) == [op |-> op, value |-> value]

NewBackwardChaining ==
    [working_memory |-> {}, asked_questions |-> {}, proved_goals |-> {},
     failed_goals |-> {}, reasoning_trace |-> <<>>,
     question_callback |-> FALSE, oracle_calls |-> <<>>, ret |-> NoReturn]

\* reset(): question_callback is kept.
bc_reset(e) ==
    [e EXCEPT !.working_memory = {}, !.asked_questions = {},
              !.proved_goals = {}, !.failed_goals = {},
              !.reasoning_trace = <<>>, !.oracle_calls = <<>>]

set_question_callback(e) == [e EXCEPT !.question_callback = TRUE]

\* matching_rules, in the order of self.rules.items()
find_rules_for_goal(goal) == SelectSeq(rules, LAMBDA r : r.Then = goal)

\* _ask_user(question);  yes  is the set of questions the callback answers
\* True to.
ask_user(e, question, yes) ==
    IF question \in e.asked_questions
    THEN [eng |-> e, ret |-> FALSE]
    ELSE LET e1 == [e EXCEPT !.asked_questions = @ \cup {question}]
         IN  IF e.question_callback
             THEN [eng |-> [e1 EXCEPT
                              !.oracle_calls = Append(@, question),
                              !.reasoning_trace =
                                  Append(@, [type |-> "user_questioned",
                                             question |-> question,
                                             answer |-> question \in yes])],
                   ret |-> question \in yes]
             ELSE [eng |-> e1, ret |-> FALSE]

RECURSIVE prove_goal(_, _, _, _, _)
RECURSIVE ProveWithinDepth(_, _, _, _, _)
RECURSIVE ProveConditions(_, _, _, _, _, _)
RECURSIVE TryRules(_, _, _, _, _, _, _)

\* The conditions proved two levels below the rule.
ProveConditions_two_deeper(e, conditions, k, depth, max_depth, yes) ==
    IF k > Len(conditions) THEN [eng |-> e, ret |-> TRUE]
    ELSE LET p == prove_goal(e, conditions[k], depth + 2, max_depth, yes)
         IN  IF p.ret
             THEN ProveConditions(p.eng, conditions, k + 1, depth, max_depth, yes)
             ELSE [eng |-> p.eng, ret |-> FALSE]

\* for condition in conditions: ... break
ProveConditions(e, conditions, k, depth, max_depth, yes) ==
    IF k > Len(conditions) THEN [eng |-> e, ret |-> TRUE]
    ELSE LET p == prove_goal(e, conditions[k], depth + 1, max_depth, yes)
         IN  IF p.ret
             THEN ProveConditions(p.eng, conditions, k + 1, depth, max_depth, yes)
             ELSE [eng |-> p.eng, ret |-> FALSE]

\* The rule loop going on to the next rule after a rule has proved the goal.
TryRules_exhaustive(e, matching_rules, i, goal, depth, max_depth, yes) ==
    IF i > Len(matching_rules)
    THEN IF goal \in e.proved_goals
         THEN [eng |-> e, ret |-> TRUE]
         ELSE [eng |-> [e EXCEPT !.failed_goals = @ \cup {goal}], ret |-> FALSE]
    ELSE LET rule == matching_rules[i]
             e1 == [e EXCEPT !.reasoning_trace =
                        Append(@, [type |-> "trying_rule", rule_id |-> rule.id,
                                   goal |-> goal, conditions |-> rule.If,
                                   depth |-> depth])]
             c == ProveConditions(e1, rule.If, 1, depth, max_depth, yes)
         IN  IF c.ret
             THEN TryRules(
                      [c.eng EXCEPT
                         !.proved_goals = @ \cup {goal},
                         !.reasoning_trace =
                             Append(@, [type |-> "goal_proved_by_rule",
                                        rule_id |-> rule.id, goal |-> goal,
                                        cf |-> rule.Cf, depth |-> depth])],
                      matching_rules, i + 1, goal, depth, max_depth, yes)
             ELSE TryRules(c.eng, matching_rules, i + 1, goal, depth, max_depth, yes)

\* The rule loop taking the goal for proved while its conditions are being
\* proved.
TryRules_assuming_goal(e, matching_rules, i, goal, depth, max_depth, yes) ==
    IF i > Len(matching_rules)
    THEN [eng |-> [e EXCEPT !.failed_goals = @ \cup {goal}], ret |-> FALSE]
    ELSE LET rule == matching_rules[i]
             e1 == [e EXCEPT !.proved_goals = @ \cup {goal},
                             !.reasoning_trace =
                        Append(@, [type |-> "trying_rule", rule_id |-> rule.id,
                                   goal |-> goal, conditions |-> rule.If,
                                   depth |-> depth])]
             c == ProveConditions(e1, rule.If, 1, depth, max_depth, yes)
         IN  IF c.ret
             THEN [eng |-> [c.eng EXCEPT
                              !.reasoning_trace =
                                  Append(@, [type |-> "goal_proved_by_rule",
                                             rule_id |-> rule.id, goal |-> goal,
                                             cf |-> rule.Cf, depth |-> depth])],
                   ret |-> TRUE]
             ELSE TryRules(c.eng, matching_rules, i + 1, goal, depth, max_depth, yes)

\* for rule_id, rule in matching_rules: ...
TryRules(e, matching_rules, i, goal, depth, max_depth, yes) ==
    IF i > Len(matching_rules)
    THEN [eng |-> [e EXCEPT !.failed_goals = @ \cup {goal}], ret |-> FALSE]
    ELSE LET rule == matching_rules[i]
             e1 == [e EXCEPT !.reasoning_trace =
                        Append(@, [type |-> "trying_rule", rule_id |-> rule.id,
                                   goal |-> goal, conditions |-> rule.If,
                                   depth |-> depth])]
             c == ProveConditions(e1, rule.If, 1, depth, max_depth, yes)
         IN  IF c.ret
             THEN [eng |-> [c.eng EXCEPT
                              !.proved_goals = @ \cup {goal},
                              !.reasoning_trace =
                                  Append(@, [type |-> "goal_proved_by_rule",
                                             rule_id |-> rule.id, goal |-> goal,
                                             cf |-> rule.Cf, depth |-> depth])],
                   ret |-> TRUE]
             ELSE TryRules(c.eng, matching_rules, i + 1, goal, depth, max_depth, yes)

\* prove_goal keeping no memory of a question: nothing is looked up in
\* failed_goals and the question is struck from asked_questions before
\* _ask_user is called.
prove_goal_asking_again(e, goal, depth, max_depth, yes) ==
    IF depth > max_depth THEN [eng |-> e, ret |-> FALSE]
    ELSE IF goal \in e.proved_goals THEN [eng |-> e, ret |-> TRUE]
    ELSE IF find_rules_for_goal(goal) = <<>>
    THEN LET a == ask_user([e EXCEPT !.asked_questions = @ \ {goal}], goal, yes)
         IN  IF a.ret
             THEN [eng |-> [a.eng EXCEPT !.proved_goals = @ \cup {goal}],
                   ret |-> TRUE]
             ELSE [eng |-> a.eng, ret |-> FALSE]
    ELSE TryRules(e, find_rules_for_goal(goal), 1, goal, depth, max_depth, yes)

\* prove_goal below its depth test, turning to the user when every rule
\* that concludes the goal has failed.
ProveWithinDepth_asking_after_rules(e, goal, depth, max_depth, yes) ==
    IF goal \in e.proved_goals THEN [eng |-> e, ret |-> TRUE]
    ELSE IF goal \in e.failed_goals THEN [eng |-> e, ret |-> FALSE]
    ELSE IF goal \in e.working_memory
    THEN [eng |-> [e EXCEPT !.proved_goals = @ \cup {goal}], ret |-> TRUE]
    ELSE LET t == TryRules(e, find_rules_for_goal(goal), 1, goal, depth,
                           max_depth, yes)
             a == ask_user(t.eng, goal, yes)
         IN  IF t.ret THEN t
             ELSE IF a.ret
             THEN [eng |-> [a.eng EXCEPT !.working_memory = @ \cup {goal},
                                         !.proved_goals = @ \cup {goal}],
                   ret |-> TRUE]
             ELSE [eng |-> a.eng, ret |-> FALSE]

\* prove_goal below its depth test, looking nothing up in proved_goals and
\* failed_goals.
ProveWithinDepth_unmemoized(e, goal, depth, max_depth, yes) ==
    IF goal \in e.working_memory
    THEN [eng |-> [e EXCEPT !.proved_goals = @ \cup {goal},
                            !.reasoning_trace =
                                Append(@, [type |-> "goal_proved_by_fact",
                                           goal |-> goal, depth |-> depth])],
          ret |-> TRUE]
    ELSE IF find_rules_for_goal(goal) = <<>>
    THEN LET a == ask_user(e, goal, yes)
         IN  IF a.ret
             THEN [eng |-> [a.eng EXCEPT
                              !.working_memory = @ \cup {goal},
                              !.proved_goals = @ \cup {goal},
                              !.reasoning_trace =
                                  Append(@, [type |-> "goal_proved_by_user",
                                             goal |-> goal, depth |-> depth])],
                   ret |-> TRUE]
             ELSE [eng |-> [a.eng EXCEPT !.failed_goals = @ \cup {goal}],
                   ret |-> FALSE]
    ELSE TryRules(e, find_rules_for_goal(goal), 1, goal, depth, max_depth, yes)

\* prove_goal below its depth test.
ProveWithinDepth(e, goal, depth, max_depth, yes) ==
    IF goal \in e.proved_goals THEN [eng |-> e, ret |-> TRUE]
    ELSE IF goal \in e.failed_goals THEN [eng |-> e, ret |-> FALSE]
    ELSE IF goal \in e.working_memory
    THEN [eng |-> [e EXCEPT !.proved_goals = @ \cup {goal},
                            !.reasoning_trace =
                                Append(@, [type |-> "goal_proved_by_fact",
                                           goal |-> goal, depth |-> depth])],
          ret |-> TRUE]
    ELSE IF find_rules_for_goal(goal) = <<>>
    THEN LET a == ask_user(e, goal, yes)
         IN  IF a.ret
             THEN [eng |-> [a.eng EXCEPT
                              !.working_memory = @ \cup {goal},
                              !.proved_goals = @ \cup {goal},
                              !.reasoning_trace =
                                  Append(@, [type |-> "goal_proved_by_user",
                                             goal |-> goal, depth |-> depth])],
                   ret |-> TRUE]
             ELSE [eng |-> [a.eng EXCEPT !.failed_goals = @ \cup {goal}],
                   ret |-> FALSE]
    ELSE TryRules(e, find_rules_for_goal(goal), 1, goal, depth, max_depth, yes)

MaxDepthReached(goal, depth) ==
    [type |-> "max_depth_reached", goal |-> goal, depth |-> depth]

\* prove_goal letting one level more through than max_depth.
prove_goal_one_deeper(e, goal, depth, max_depth, yes) ==
    IF depth > max_depth + 1
    THEN [eng |-> [e EXCEPT !.reasoning_trace =
                      Append(@, MaxDepthReached(goal, depth))],
          ret |-> FALSE]
    ELSE ProveWithinDepth(e, goal, depth, max_depth, yes)

prove_goal(e, goal, depth, max_depth, yes) ==
    IF depth > max_depth
    THEN [eng |-> [e EXCEPT !.reasoning_trace =
                      Append(@, MaxDepthReached(goal, depth))],
          ret |-> FALSE]
    ELSE ProveWithinDepth(e, goal, depth, max_depth, yes)

\* _calculate_goal_confidence(goal): the scan of the trace from event i on.
RECURSIVE ConfidenceScan(_, _, _, _)
ConfidenceScan(trace, i, goal, confidence) ==
    IF i > Len(trace) THEN confidence
    ELSE IF trace[i].type = "goal_proved_by_rule" /\ trace[i].goal = goal
         THEN ConfidenceScan(trace, i + 1, goal, Min(confidence, trace[i].cf))
         ELSE ConfidenceScan(trace, i + 1, goal, confidence)

calculate_goal_confidence(e, goal) == ConfidenceScan(e.reasoning_trace, 1, goal, 100)

DefaultMaxDepth == 10

\* backward_chain's  for goal in goals,  from the k-th goal on.
RECURSIVE ForEachGoal(_, _, _, _, _)
ForEachGoal(e, goals, k, res, yes) ==
    IF k > Len(goals) THEN [eng |-> e, ret |-> res]
    ELSE LET p == prove_goal(e, goals[k], 0, DefaultMaxDepth, yes)
         IN  IF p.ret
             THEN ForEachGoal(p.eng, goals, k + 1,
                      [res EXCEPT !.proved_goals =
                          Append(@, [goal |-> goals[k], status |-> "proved",
                                     confidence |->
                                         calculate_goal_confidence(p.eng, goals[k])])],
                      yes)
             ELSE ForEachGoal(p.eng, goals, k + 1,
                      [res EXCEPT !.failed_goals =
                          Append(@, [goal |-> goals[k], status |-> "failed"])],
                      yes)

\* backward_chain(goals): the engine afterwards and the dictionary returned.
\* 'questions_asked' is list(self.asked_questions), kept as the set it
\* lists; 'reasoning_trace' is the engine's own list.
backward_chain(e, goals, yes) ==
    ForEachGoal(e, goals, 1,
                [goals |-> goals, proved_goals |-> <<>>, failed_goals |-> <<>>,
                 questions_asked |-> e.asked_questions],
                yes)

-----------------------------------------------------------------------------
(* Certainty factors (inference_engine/certainty_factor.py) *)

\* The functions take floats; here a certainty factor is an exact fraction
\* n/d in lowest terms with d > 0, so that equal values are equal records.
RECURSIVE Gcd(_, _)
Gcd(a, b) == IF b = 0 THEN a ELSE Gcd(b, a % b)

Abs(x) == IF x < 0 THEN -x ELSE x

Frac(n, d) ==
    LET s == IF d < 0 THEN -1 ELSE 1
        g == Gcd(Abs(n), Abs(d))
    IN  [n |-> (s * n) \div g, d |-> (s * d) \div g]

Zero == Frac(0, 1)
One == Frac(1, 1)

FAdd(x, y) == Frac(x.n * y.d + y.n * x.d, x.d * y.d)
FSub(x, y) == Frac(x.n * y.d - y.n * x.d, x.d * y.d)
FMul(x, y) == Frac(x.n * y.n, x.d * y.d)
FDiv(x, y) == Frac(x.n * y.d, x.d * y.n)
FLess(x, y) == x.n * y.d < y.n * x.d
FAbs(x) == Frac(Abs(x.n), x.d)
FMin(x, y) == IF FLess(y, x) THEN y ELSE x

\* combine_sequential_cf adding the two factors in its both-positive branch.
combine_sequential_cf_added(cf1, cf2) ==
    IF FLess(Zero, cf1) /\ FLess(Zero, cf2)
    THEN FAdd(cf1, cf2)
    ELSE IF FLess(cf1, Zero) /\ FLess(cf2, Zero)
    THEN FAdd(cf1, FMul(cf2, FAdd(One, cf1)))
    ELSE LET denominator == FSub(One, FMin(FAbs(cf1), FAbs(cf2)))
         IN  IF denominator = Zero THEN Zero
             ELSE FDiv(FAdd(cf1, cf2), denominator)

combine_sequential_cf(cf1, cf2) ==
    IF FLess(Zero, cf1) /\ FLess(Zero, cf2)
    THEN FAdd(cf1, FMul(cf2, FSub(One, cf1)))
    ELSE IF FLess(cf1, Zero) /\ FLess(cf2, Zero)
    THEN FAdd(cf1, FMul(cf2, FAdd(One, cf1)))
    ELSE LET denominator == FSub(One, FMin(FAbs(cf1), FAbs(cf2)))
         IN  IF denominator = Zero THEN Zero
             ELSE FDiv(FAdd(cf1, cf2), denominator)

\* for cf in cf_list[1:]: result = combine_sequential_cf(result, cf)
RECURSIVE CombineFrom(_, _, _)
CombineFrom(cf_list, i, result) ==
    IF i > Len(cf_list) THEN result
    ELSE CombineFrom(cf_list, i + 1, combine_sequential_cf(result, cf_list[i]))

\* combine_parallel_cf combining from the last element backwards.
combine_parallel_cf_backwards(cf_list) ==
    IF cf_list = <<>> THEN Zero
    ELSE LET rev == [i \in DOMAIN cf_list |-> cf_list[Len(cf_list) + 1 - i]]
         IN  CombineFrom(rev, 2, rev[1])

combine_parallel_cf(cf_list) ==
    IF cf_list = <<>> THEN Zero
    ELSE CombineFrom(cf_list, 2, cf_list[1])

cf_with_user_certainty(cf_rule, cf_user) == FMul(cf_rule, cf_user)

\* What a call gave back: a value, or the exception it raised.
Returned_(value) == [raised |-> "", value |-> value]
Raised(error) == [raised |-> error]

\* combine_certainty_factors(cf1, cf2) of forward_chaining.py: what it
\* returns or raises.  The mixed-sign branch divides without a test of the
\* denominator, and a float division by 0.0 raises ZeroDivisionError.
combine_certainty_factors(cf1, cf2) ==
    IF FLess(Zero, cf1) /\ FLess(Zero, cf2)
    THEN Returned_(FAdd(cf1, FMul(cf2, FSub(One, cf1))))
    ELSE IF FLess(cf1, Zero) /\ FLess(cf2, Zero)
    THEN Returned_(FAdd(cf1, FMul(cf2, FAdd(One, cf1))))
    ELSE IF FSub(One, FMin(FAbs(cf1), FAbs(cf2))) = Zero
    THEN Raised("ZeroDivisionError")
    ELSE Returned_(FDiv(FAdd(cf1, cf2), FSub(One, FMin(FAbs(cf1), FAbs(cf2)))))

\* calculate_hypothesis_cf(rule_cfs, user_cfs): what it returns or raises.
calculate_hypothesis_cf(rule_cfs, user_cfs) ==
    IF Len(rule_cfs) # Len(user_cfs) THEN Raised("ValueError")
    ELSE LET evidence_cfs ==
                 [i \in DOMAIN rule_cfs |->
                     cf_with_user_certainty(rule_cfs[i], user_cfs[i])]
         IN  Returned_(combine_parallel_cf(evidence_cfs))

-----------------------------------------------------------------------------
(* Operations *)

\* The rule file at rules_path: absent, bytes that are not UTF-8 text, text
\* that is not JSON, or a JSON document with these rules.
MissingFile == [kind |-> "missing"]
NotUtf8File == [kind |-> "not_utf8"]
NotJsonFile == [kind |-> "not_json"]
JsonFile(rs) == [kind |-> "json", rules |-> rs]

\* _load_rules(rules_path), after the existence test __init__ makes in
\* ForwardChaining: open(..., encoding='utf-8') and json.load, with
\* FileNotFoundError and json.JSONDecodeError caught.
load_rules(file) ==
    CASE file.kind = "missing" -> Returned_(<<>>)
      [] file.kind = "not_utf8" -> Raised("UnicodeDecodeError")
      [] file.kind = "not_json" -> Returned_(<<>>)
      [] file.kind = "json" -> Returned_(file.rules)

\* ForwardChaining(rules_path) and BackwardChaining(rules_path): the state
\* after construction, or the exception that left no engine.
Construct(file) ==
    /\ construction = [file |-> file.kind, raised |-> load_rules(file).raised]
    /\ rules = IF load_rules(file).raised = "" THEN load_rules(file).value ELSE <<>>
    /\ working_memory = {}
    /\ inferred_facts = {}
    /\ fired_rules = <<>>
    /\ reasoning_trace = <<>>
    /\ diagnosis_scores = <<>>
    /\ pc = "idle"
    /\ iteration = 0
    /\ new_facts_added = FALSE
    /\ max_iterations = 0
    /\ results = <<>>
    /\ peer = NewSession
    /\ bc = NewBackwardChaining
    /\ calc = NoCalc
    /\ held = <<>>

Init == \E rs \in RuleSets : Construct(JsonFile(rs))

\* The caller holds the engine between two calls; what forward_chain
\* returned is in  results  until the caller's next call, and the locals of
\* the finished call are kept with it.
AtRest == pc \in {"idle", "returned"}

NoCall ==
    /\ pc' = "idle"
    /\ iteration' = 0
    /\ new_facts_added' = FALSE
    /\ max_iterations' = 0
    /\ results' = <<>>

Reset ==
    /\ AtRest
    /\ SetEngine(reset(Engine))
    /\ NoCall
    /\ UNCHANGED <<rules, peer, bc, calc, construction,
                held>>

AddFacts ==
    /\ AtRest
    /\ \E facts \in FactLists :
         /\ Len(reasoning_trace) + Len(facts) <= TraceCap
         /\ SetEngine(add_facts(Engine, facts))
    /\ NoCall
    /\ UNCHANGED <<rules, peer, bc, calc, construction,
                held>>

\* A direct call fire_rule(rule_id, self.rules[rule_id]).
FireRule ==
    /\ AtRest
    /\ Len(reasoning_trace) < TraceCap
    /\ \E i \in DOMAIN rules :
         SetEngine(fire_rule(Engine, rules[i].id, rules[i]).eng)
    /\ NoCall
    /\ UNCHANGED <<rules, peer, bc, calc, construction,
                held>>

DefaultMaxIterations == 50

\* forward_chain(max_iterations): entry.
ForwardChainCall ==
    /\ AtRest
    /\ \E m \in (0..MaxIter) \cup {DefaultMaxIterations} : max_iterations' = m
    /\ iteration' = 0
    /\ new_facts_added' = TRUE
    /\ pc' = "while"
    /\ results' = <<>>
    /\ UNCHANGED <<rules, working_memory, inferred_facts, fired_rules,
                   reasoning_trace, diagnosis_scores, peer, bc, calc, construction,
                held>>

\* The loop test without the flag.
WhileTest_ignoring_flag(added, iter, max) == iter < max

\* while new_facts_added and iteration < max_iterations
WhileTest(added, iter, max) == added /\ iter < max

\* The loop condition ending one pass early.
LoopCondition_early == new_facts_added /\ iteration + 1 < max_iterations

LoopCondition == WhileTest(new_facts_added, iteration, max_iterations)

\* One iteration of the while loop: a full pass over the rules.
ForwardChainPass ==
    /\ pc = "while"
    /\ LoopCondition
    /\ LET p == ForEachRule(rules, Engine, 1, FALSE)
       IN  /\ SetEngine(p.eng)
           /\ new_facts_added' = p.new_facts_added
    /\ iteration' = iteration + 1
    /\ UNCHANGED <<rules, pc, max_iterations, results, peer, bc, calc, construction,
                held>>

\* The loop ends: compile the results and return.
ForwardChainReturn ==
    /\ pc = "while"
    /\ ~LoopCondition
    /\ results' = <<CompileResults(Engine, iteration)>>
    /\ pc' = "returned"
    /\ UNCHANGED <<rules, working_memory, inferred_facts, fired_rules,
                   reasoning_trace, diagnosis_scores, iteration,
                   new_facts_added, max_iterations, peer, bc, calc, construction,
                held>>

ForwardChain == ForwardChainCall \/ ForwardChainPass \/ ForwardChainReturn

Next == Reset \/ AddFacts \/ FireRule \/ ForwardChain

Spec == Init /\ [][Next]_vars

\* A session driven as main.py and the tests drive it: reset, add_facts and
\* forward_chain only.
NextFC == Reset \/ AddFacts \/ ForwardChain

SpecFC == Init /\ [][NextFC]_vars


\* The return of forward_chain as its caller sees it: the loop has ended
\* and the call comes back.
ForwardChainReturning == pc = "while" /\ ~LoopCondition /\ pc' = "returned"

\* Rule files made of the entries that feed one another: the cycle R2/R3
\* and the entries R4, R6 and R7 that lead into it.
ChainedRuleSets ==
    { rs \in RuleSets : \A i \in DOMAIN rs : rs[i].id \in {"R2", "R3", "R4", "R6", "R7"} }

\* forward_chain runs to its return once it is called: the loop is plain
\* sequential code.
InitChained == Init /\ rules \in ChainedRuleSets

SpecFCFair ==
    /\ InitChained
    /\ [][NextFC]_vars
    /\ WF_vars(ForwardChainPass) /\ WF_pc(ForwardChainReturning)

\* forward_chain's  results  as its caller holds it: 'inferred_facts' and
\* 'diagnosis_scores' are the copies list(...) and dict(...) made at the
\* return, 'fired_rules' and 'reasoning_trace' are self.fired_rules and
\* self.reasoning_trace, the engine's own lists.
ResultRead(copied) ==
    [inferred_facts |-> copied.inferred_facts,
     diagnosis_scores |-> copied.diagnosis_scores,
     fired_rules |-> fired_rules,
     reasoning_trace |-> reasoning_trace]

\* The caller keeps the dictionary forward_chain has just returned.
KeepResult ==
    /\ pc = "returned"
    /\ held = <<>>
    /\ held' = <<ResultRead(results[1])>>
    /\ UNCHANGED <<rules, working_memory, inferred_facts, fired_rules,
                   reasoning_trace, diagnosis_scores, pc, iteration,
                   new_facts_added, max_iterations, results, peer, bc, calc,
                   construction>>

\* A session whose caller keeps a result and goes on using the engine.
NextKeep == KeepResult \/ Reset \/ AddFacts \/ ForwardChain

SpecKeep == InitChained /\ [][NextKeep]_vars

-----------------------------------------------------------------------------
(* A backward-chaining session *)

\* Goals a caller asks the engine to prove.
Goals == {S1, D1}

\* Facts that are a condition of some entry.
Conditions == UNION { Range(r.If) : r \in Catalog }

\* Rule files whose entries all bear on proofs: every entry concludes a goal
\* or a condition.
BCRuleSets ==
    { rs \in RuleSets : \A i \in DOMAIN rs : rs[i].Then \in Goals \cup Conditions }

InitBC == Init /\ rules \in BCRuleSets

GoalLists == UNION { [1..n -> Goals] : n \in 1..TraceCap }

\* Answers of the question callback during one call: the questions it
\* answers True to.
Answers == SUBSET InputFacts

UnchangedForward ==
    UNCHANGED <<rules, working_memory, inferred_facts, fired_rules,
                reasoning_trace, diagnosis_scores, pc, iteration,
                new_facts_added, max_iterations, results, peer, calc, construction,
                held>>

\* A call may add events to the trace while the trace is short.
TraceRoom(e) ==
    \/ Len(bc.reasoning_trace) < TraceCap
    \/ e.reasoning_trace = bc.reasoning_trace

BCReset ==
    /\ bc' = [bc_reset(bc) EXCEPT !.ret = NoReturn]
    /\ UnchangedForward

BCSetQuestionCallback ==
    /\ bc' = [set_question_callback(bc) EXCEPT !.ret = NoReturn]
    /\ UnchangedForward

BCAddFacts ==
    /\ \E facts \in FactLists :
         /\ Len(bc.reasoning_trace) + Len(facts) <= TraceCap
         /\ bc' = [add_facts(bc, facts) EXCEPT !.ret = NoReturn]
    /\ UnchangedForward

\* The call prove_goal(goal, depth, max_depth).
ProveGoalCall(goal, depth, max_depth, yes) ==
    LET p == prove_goal(bc, goal, depth, max_depth, yes)
    IN  /\ TraceRoom(p.eng)
        /\ bc' = [p.eng EXCEPT !.ret = Returns("prove_goal", p.ret)]
        /\ UnchangedForward

BCProveGoal ==
    \E goal \in Goals, depth \in {0, MaxDepth + 1}, yes \in Answers :
        ProveGoalCall(goal, depth, MaxDepth, yes)

\* The call backward_chain(goals).
BackwardChainCall(goals, yes) ==
    LET b == backward_chain(bc, goals, yes)
    IN  /\ Len(bc.reasoning_trace) < TraceCap
        /\ bc' = [b.eng EXCEPT !.ret = Returns("backward_chain", b.ret)]
        /\ UnchangedForward

BCBackwardChain ==
    \E goals \in GoalLists, yes \in Answers : BackwardChainCall(goals, yes)

NextBC ==
    \/ BCReset
    \/ BCSetQuestionCallback
    \/ BCAddFacts
    \/ BCProveGoal
    \/ BCBackwardChain

SpecBC == InitBC /\ [][NextBC]_vars

-----------------------------------------------------------------------------
(* Calls of the CertaintyFactor functions *)

\* Certainty factors k/Steps in [-1, 1].
CfGrid == { Frac(k, Steps) : k \in (-Steps)..Steps }

\* A user's certainty about a symptom.
UserCfGrid == { Zero, Frac(1, 2), One }

CfLists == UNION { [1..n -> CfGrid] : n \in 0..MaxLen }

RuleCfLists == UNION { [1..n -> CfGrid] : n \in 0..(MaxLen - 1) }

UserCfLists == UNION { [1..n -> UserCfGrid] : n \in 0..(MaxLen - 1) }

UnchangedEngines ==
    UNCHANGED <<rules, working_memory, inferred_facts, fired_rules,
                reasoning_trace, diagnosis_scores, pc, iteration,
                new_facts_added, max_iterations, results, peer, bc, construction,
                held>>

InitCF == Init /\ rules = <<>>

\* The functions keep no state between calls: one call is looked at.
NotCalled == calc = NoCalc

CombineSequential ==
    /\ NotCalled
    /\ \E cf1 \in CfGrid, cf2 \in CfGrid :
         calc' = [op |-> "combine_sequential_cf", cf1 |-> cf1, cf2 |-> cf2,
                  result |-> Returned_(combine_sequential_cf(cf1, cf2))]
    /\ UnchangedEngines

CombineParallel ==
    /\ NotCalled
    /\ \E cf_list \in CfLists :
         calc' = [op |-> "combine_parallel_cf", cf_list |-> cf_list,
                  result |-> Returned_(combine_parallel_cf(cf_list))]
    /\ UnchangedEngines

CalculateHypothesis ==
    /\ NotCalled
    /\ \E rule_cfs \in RuleCfLists, user_cfs \in UserCfLists :
         calc' = [op |-> "calculate_hypothesis_cf", rule_cfs |-> rule_cfs,
                  user_cfs |-> user_cfs,
                  result |-> calculate_hypothesis_cf(rule_cfs, user_cfs)]
    /\ UnchangedEngines

NextCF == CombineSequential \/ CombineParallel \/ CalculateHypothesis

SpecCF == InitCF /\ [][NextCF]_vars

\* A call of the module-level combine_certainty_factors.
CombineCertaintyFactors ==
    /\ NotCalled
    /\ \E cf1 \in CfGrid, cf2 \in CfGrid :
         calc' = [op |-> "combine_certainty_factors", cf1 |-> cf1, cf2 |-> cf2,
                  result |-> combine_certainty_factors(cf1, cf2)]
    /\ UnchangedEngines

\* A caller combining two certainty factors with the one function or with
\* the other.
NextCombine == CombineSequential \/ CombineCertaintyFactors

SpecCombine == InitCF /\ [][NextCombine]_vars

-----------------------------------------------------------------------------
(* Engines constructed from a missing or malformed rule file *)

BrokenFiles == {MissingFile, NotUtf8File, NotJsonFile}

InitLoad == \E file \in BrokenFiles : Construct(file)

\* Construction returned an engine.
Constructed == construction.raised = ""

NextLoad ==
    \/ Constructed /\ AddFacts
    \/ Constructed /\ ForwardChainCall
    \/ Constructed /\ ForwardChainPass
    \/ Constructed /\ ForwardChainReturn
    \/ Constructed /\ BCSetQuestionCallback
    \/ Constructed /\ BCAddFacts
    \/ Constructed /\ BCBackwardChain

SpecLoad == InitLoad /\ [][NextLoad]_vars

-----------------------------------------------------------------------------
(* A session with either engine *)

\* The two engines are separate objects that share nothing but the rule
\* file: a session works with the one or with the other.
ForwardUnused == Engine = NewEngine /\ pc = "idle"

BackwardUnused == bc = NewBackwardChaining

NextEither ==
    \/ BackwardUnused /\ Reset
    \/ BackwardUnused /\ AddFacts
    \/ BackwardUnused /\ FireRule
    \/ BackwardUnused /\ ForwardChainCall
    \/ BackwardUnused /\ ForwardChainPass
    \/ BackwardUnused /\ ForwardChainReturn
    \/ ForwardUnused /\ BCReset
    \/ ForwardUnused /\ BCSetQuestionCallback
    \/ ForwardUnused /\ BCAddFacts
    \/ ForwardUnused /\ BCProveGoal
    \/ ForwardUnused /\ BCBackwardChain

SpecEither == InitBC /\ [][NextEither]_vars

-----------------------------------------------------------------------------
(* Two sessions on the same rule file *)

\* The first session: facts are added, then forward_chain is called once.
FirstAddFacts == pc = "idle" /\ AddFacts

FirstForwardChainCall == pc = "idle" /\ ForwardChainCall

UnchangedFirst ==
    UNCHANGED <<rules, working_memory, inferred_facts, fired_rules,
                reasoning_trace, diagnosis_scores, pc, iteration,
                new_facts_added, max_iterations, results, bc, calc, construction,
                held>>

\* The second session is given facts of the first, in any order and in any
\* number of add_facts calls.
PeerAddFacts ==
    /\ pc = "returned"
    /\ peer.pc = "idle"
    /\ \E facts \in FactLists :
         /\ Range(facts) \subseteq working_memory
         /\ Len(peer.eng.reasoning_trace) + Len(facts) <= TraceCap
         /\ peer' = [peer EXCEPT !.eng = add_facts(@, facts)]
    /\ UnchangedFirst

\* The second session calls forward_chain with the first one's max_iterations.
PeerForwardChainCall ==
    /\ pc = "returned"
    /\ peer.pc = "idle"
    /\ peer' = [peer EXCEPT !.max_iterations = max_iterations,
                            !.iteration = 0,
                            !.new_facts_added = TRUE,
                            !.pc = "while"]
    /\ UnchangedFirst

PeerForwardChainPass ==
    /\ peer.pc = "while"
    /\ WhileTest(peer.new_facts_added, peer.iteration, peer.max_iterations)
    /\ LET p == ForEachRule(rules, peer.eng, 1, FALSE)
       IN  peer' = [peer EXCEPT !.eng = p.eng,
                                !.new_facts_added = p.new_facts_added,
                                !.iteration = @ + 1]
    /\ UnchangedFirst

PeerForwardChainReturn ==
    /\ peer.pc = "while"
    /\ ~WhileTest(peer.new_facts_added, peer.iteration, peer.max_iterations)
    /\ peer' = [peer EXCEPT !.results = <<CompileResults(peer.eng, peer.iteration)>>,
                            !.pc = "returned"]
    /\ UnchangedFirst

NextPair ==
    \/ FirstAddFacts
    \/ FirstForwardChainCall
    \/ ForwardChainPass
    \/ ForwardChainReturn
    \/ PeerAddFacts
    \/ PeerForwardChainCall
    \/ PeerForwardChainPass
    \/ PeerForwardChainReturn

SpecPair == Init /\ [][NextPair]_vars

-----------------------------------------------------------------------------
(* Notions the properties are stated with *)

RuleById(id) == CHOOSE r \in Range(rules) : r.id = id

\* The rule that was fired i-th.
Fired(i) == RuleById(fired_rules[i])

IsPrefix(s, t) == Len(s) <= Len(t) /\ SubSeq(t, 1, Len(s)) = s

NoDuplicates(s) == \A i, j \in DOMAIN s : i # j => s[i] # s[j]

Applicable(r) == \A k \in DOMAIN r.If : r.If[k] \in working_memory \cup inferred_facts

AllApplicableFired ==
    \A r \in Range(rules) : Applicable(r) => r.id \in Range(fired_rules)

Returned == pc = "returned"

-----------------------------------------------------------------------------
(* C1 *)

\* C1: each rule fires at most once per session: whatever add_facts,
\* fire_rule and forward_chain calls were made since construction or the
\* last reset, fired_rules holds no rule id twice.
C1_FiredAtMostOnce == NoDuplicates(fired_rules)

\* forward_chain has run a second pass over rules that had all fired.
C1_Witness ==
    /\ Returned
    /\ Len(rules) >= 2
    /\ Len(fired_rules) = Len(rules)
    /\ results[1].iterations >= 2

-----------------------------------------------------------------------------
(* C2 *)

\* The facts the rules fired before position i concluded.
ConcludedBefore(frs, i) == {RuleById(frs[j]).Then : j \in 1..(i - 1)}

\* Every rule a step adds to fired_rules had, when it fired, all its
\* antecedents in working_memory, in inferred_facts or among the conclusions
\* of the rules fired before it in the same pass.
FiresOnlyApplicable ==
    \A i \in (Len(fired_rules) + 1)..Len(fired_rules') :
        LET r == RuleById(fired_rules'[i])
            had == working_memory \cup inferred_facts
                     \cup {RuleById(fired_rules'[j]).Then :
                             j \in (Len(fired_rules) + 1)..(i - 1)}
        IN  \A k \in DOMAIN r.If : r.If[k] \in had

\* Every inferred fact is the conclusion of a fired rule, and every fired
\* rule rests on known facts and on conclusions of rules fired before it.
DerivedFromKnownFacts ==
    /\ inferred_facts = {Fired(i).Then : i \in DOMAIN fired_rules}
    /\ \A i \in DOMAIN fired_rules :
         \A k \in DOMAIN Fired(i).If :
            Fired(i).If[k] \in working_memory \cup ConcludedBefore(fired_rules, i)

\* C2: forward_chain fires a rule only when, at the moment of firing, every
\* antecedent of the rule is in working_memory \cup inferred_facts; hence
\* every inferred fact is derivable from the known facts through the fired
\* rules.
C2_FiresOnlyWhenSatisfied ==
    /\ [][FiresOnlyApplicable]_vars
    /\ []DerivedFromKnownFacts

\* A run fired a rule of two antecedents and then a rule resting on an
\* inferred fact.
C2_Witness ==
    /\ Returned
    /\ \E i, j \in DOMAIN fired_rules :
         /\ i < j
         /\ Len(Fired(i).If) = 2
         /\ \E k \in DOMAIN Fired(j).If : Fired(j).If[k] \notin working_memory

-----------------------------------------------------------------------------
(* C3 *)

RECURSIVE SumFiredCf(_, _)
\* The sum of the CF of the first n fired rules that conclude c.
SumFiredCf(c, n) ==
    IF n = 0 THEN 0
    ELSE SumFiredCf(c, n - 1) + (IF Fired(n).Then = c THEN Fired(n).Cf ELSE 0)

R6 == Rule("R6", <<S1, S2>>, D1, 88)

\* C3: diagnosis_scores[c] is the sum of the CF of the fired rules that
\* conclude c (additive, not clamped), a consequent no fired rule concludes
\* has no entry, and for the single rule R6 (CF 0.88) with both antecedents
\* known the score of its consequent is exactly 0.88.
C3_ScoresAreSums ==
    /\ NoDuplicates([i \in DOMAIN diagnosis_scores |-> diagnosis_scores[i].diagnosis])
    /\ ScoreKeys(diagnosis_scores) = {Fired(i).Then : i \in DOMAIN fired_rules}
    /\ \A c \in ScoreKeys(diagnosis_scores) :
         ScoreOf(diagnosis_scores, c) = SumFiredCf(c, Len(fired_rules))
    /\ (Returned /\ rules = <<R6>> /\ {S1, S2} \subseteq working_memory
          /\ results[1].iterations >= 1)
         => /\ ScoreOf(results[1].diagnosis_scores, D1) = 88
            /\ D1 \in results[1].inferred_facts

\* Two rules concluded the same diagnosis and its score exceeds 1.0.
C3_Witness ==
    /\ Returned
    /\ ScoreOf(diagnosis_scores, D1) = 158
    /\ Cardinality({i \in DOMAIN fired_rules : Fired(i).Then = D1}) = 2

-----------------------------------------------------------------------------
(* C4 *)

\* C4: forward_chain stops as soon as one full pass over the rules adds no
\* new fact to inferred_facts: after a pass that left inferred_facts
\* unchanged it performs no further pass.
C4_StopsWhenNoNewFact ==
    [][(ForwardChainPass /\ inferred_facts' = inferred_facts)
          => ~LoopCondition']_vars

-----------------------------------------------------------------------------
(* C5 *)

RECURSIVE ReachableFrom(_, _)
\* The facts reachable from the facts in F along antecedent -> consequent.
ReachableFrom(F, rs) ==
    LET G == F \cup {r.Then : r \in {q \in Range(rs) : Range(q.If) \cap F # {}}}
    IN  IF G = F THEN F ELSE ReachableFrom(G, rs)

\* No fact is reachable from itself in the rule graph.
Acyclic(rs) ==
    \A r \in Range(rs) : Range(r.If) \cap ReachableFrom({r.Then}, rs) = {}

NonEmptyConsequents(rs) == \A r \in Range(rs) : r.Then # ""

RECURSIVE Closure(_, _)
\* The facts derivable from the facts in F.
Closure(F, rs) ==
    LET G == F \cup {r.Then : r \in {q \in Range(rs) : Range(q.If) \subseteq F}}
    IN  IF G = F THEN F ELSE Closure(G, rs)

RECURSIVE PassesFrom(_, _, _)
\* The number of passes over the rules, from engine e on, after which every
\* fact in goal is known or inferred.
PassesFrom(e, rs, goal) ==
    IF goal \subseteq e.working_memory \cup e.inferred_facts THEN 0
    ELSE 1 + PassesFrom(ForEachRule(rs, e, 1, FALSE).eng, rs, goal)

\* The passes a fresh session with the known facts F needs to reach every
\* derivable fact.
PassesNeeded(F, rs) ==
    PassesFrom([NewEngine EXCEPT !.working_memory = F], rs, Closure(F, rs))

ReachableInFewerPasses ==
    /\ Acyclic(rules)
    /\ PassesNeeded(working_memory, rules) < max_iterations

\* C5 as stated: for an acyclic rule graph whose derivable facts are all
\* reachable in fewer than max_iterations passes, forward_chain returns an
\* iteration count smaller than max_iterations and leaves no applicable rule
\* unfired.
C5_FixpointStrictlyBeforeMax ==
    (Returned /\ ReachableInFewerPasses)
        => /\ results[1].iterations < max_iterations
           /\ AllApplicableFired

\* C5, amended: for an acyclic rule graph with non-empty consequents whose
\* derivable facts are all reachable in fewer than max_iterations passes,
\* forward_chain returns with every derivable fact inferred and no
\* applicable rule unfired, after at most max_iterations passes and at most
\* two passes more than the facts needed.
C5_FixpointWithinMax ==
    (Returned /\ ReachableInFewerPasses /\ NonEmptyConsequents(rules))
        => /\ results[1].iterations <= max_iterations
           /\ results[1].iterations <= PassesNeeded(working_memory, rules) + 2
           /\ Closure(working_memory, rules)
                \subseteq working_memory \cup results[1].inferred_facts
           /\ AllApplicableFired

\* A run whose facts were all reachable in fewer than max_iterations passes
\* fired two rules and returned with iterations = max_iterations.
C5_Witness ==
    /\ Returned
    /\ ReachableInFewerPasses
    /\ NonEmptyConsequents(rules)
    /\ PassesNeeded(working_memory, rules) >= 1
    /\ results[1].iterations = max_iterations
    /\ Len(fired_rules) >= 2

-----------------------------------------------------------------------------
(* C6 *)

\* C6: forward chaining is monotone: a pass only adds to inferred_facts, and
\* a rule id once in fired_rules stays there, in place, until reset.
C6_Monotone ==
    [][Reset \/ (/\ inferred_facts \subseteq inferred_facts'
                 /\ IsPrefix(fired_rules, fired_rules'))]_vars

\* A second pass has added a fact to those the first pass inferred.
C6_Witness ==
    /\ pc = "while"
    /\ iteration = 2
    /\ Cardinality(inferred_facts) >= 2
    /\ \E i \in DOMAIN fired_rules :
         \E k \in DOMAIN Fired(i).If : Fired(i).If[k] \in inferred_facts

-----------------------------------------------------------------------------
(* C7 *)

\* Both sessions have returned from forward_chain and were given the same
\* known facts and the same max_iterations.
SameInputs ==
    /\ pc = "returned"
    /\ peer.pc = "returned"
    /\ peer.eng.working_memory = working_memory
    /\ peer.max_iterations = max_iterations

\* diagnosis_scores compared as dictionaries.
SameScores(ds1, ds2) ==
    /\ ScoreKeys(ds1) = ScoreKeys(ds2)
    /\ \A c \in ScoreKeys(ds1) : ScoreOf(ds1, c) = ScoreOf(ds2, c)

-----------------------------------------------------------------------------
(* C11 *)

\* C11: in every reachable state of a forward-chaining session the known
\* facts (working_memory) and the inferred facts are disjoint.
C11_KnownAndInferredDisjoint == working_memory \cap inferred_facts = {}

-----------------------------------------------------------------------------
(* C12 *)

\* The callback answered True to question g in this session.
OracleConfirmed(g) ==
    \E i \in DOMAIN bc.reasoning_trace :
        /\ bc.reasoning_trace[i].type = "user_questioned"
        /\ bc.reasoning_trace[i].question = g
        /\ bc.reasoning_trace[i].answer

\* A prove_goal(g) call on a goal the callback confirmed returns True and
\* leaves the callback uncalled.
ConfirmedGoalFromCache ==
    \A g \in Goals, yes \in Answers :
        (OracleConfirmed(g) /\ ProveGoalCall(g, 0, MaxDepth, yes))
            => (bc'.ret.value /\ bc'.oracle_calls = bc.oracle_calls)

\* C12: between two resets the question callback is never called twice with
\* the same goal, and a prove_goal(g) on a goal the callback confirmed
\* returns True from the cache without calling it.
C12_OracleAtMostOncePerGoal ==
    /\ [](NoDuplicates(bc.oracle_calls))
    /\ [][ConfirmedGoalFromCache]_vars

\* backward_chain([S1, S1]) proved S1 twice, the callback having been called
\* once.
C12_Witness ==
    /\ bc.ret.op = "backward_chain"
    /\ bc.ret.value.goals = <<S1, S1>>
    /\ Len(bc.ret.value.proved_goals) = 2
    /\ bc.oracle_calls = <<S1>>
    /\ OracleConfirmed(S1)

-----------------------------------------------------------------------------
(* C13 *)

BackwardChainReturned == bc.ret.op = "backward_chain"

\* C13: the result of backward_chain lists in questions_asked every goal
\* that was put to the callback up to the end of the call.
C13_QuestionsAskedReported ==
    BackwardChainReturned =>
        Range(bc.oracle_calls) \subseteq bc.ret.value.questions_asked

-----------------------------------------------------------------------------
(* C14 *)

\* A prove_goal(g) call on a goal memoized in failed_goals returns False.
FailedGoalStaysFailed ==
    \A g \in Goals, depth \in {0, MaxDepth + 1}, yes \in Answers :
        (g \in bc.failed_goals /\ ProveGoalCall(g, depth, MaxDepth, yes))
            => ~bc'.ret.value

\* C14: once a goal is memoized in failed_goals every later prove_goal on it
\* returns False, whatever facts were added or goals proved since, until
\* reset.
C14_FailuresAreSticky == [][FailedGoalStaysFailed]_vars

-----------------------------------------------------------------------------
(* C15 *)

\* A prove_goal call with depth > max_depth returns False and only adds a
\* max_depth_reached event.
BeyondMaxDepthFails ==
    \A g \in Goals, yes \in Answers :
        ProveGoalCall(g, MaxDepth + 1, MaxDepth, yes)
            => /\ bc'.ret = Returns("prove_goal", FALSE)
               /\ bc'.reasoning_trace =
                      Append(bc.reasoning_trace, MaxDepthReached(g, MaxDepth + 1))
               /\ bc'.failed_goals = bc.failed_goals
               /\ bc'.proved_goals = bc.proved_goals

\* After the call, rule r has a condition that is not proved.
RuleFailed(r) == \E k \in DOMAIN r.If : r.If[k] \notin bc'.proved_goals

\* A prove_goal call on a goal that is neither cached nor a known fact, has
\* concluding rules and sees all of them fail, returns False with the goal
\* in failed_goals.
ExhaustedRulesFail ==
    \A g \in Goals, yes \in Answers :
        ( /\ ProveGoalCall(g, 0, MaxDepth, yes)
          /\ g \notin bc.proved_goals \cup bc.working_memory
          /\ find_rules_for_goal(g) # <<>>
          /\ \A i \in DOMAIN find_rules_for_goal(g) :
                 RuleFailed(find_rules_for_goal(g)[i]) )
            => /\ bc'.ret = Returns("prove_goal", FALSE)
               /\ g \in bc'.failed_goals

\* C15: exceeding max_depth and exhausting all candidate rules are failed
\* goals, not exceptions: prove_goal returns False in both cases, and in the
\* second the goal is recorded as failed.
C15_DepthAndExhaustionFail ==
    [][BeyondMaxDepthFails /\ ExhaustedRulesFail]_vars

\* D1 failed with all its rules exhausted, and the last call, made beyond
\* max_depth, returned False.
C15_Witness ==
    /\ D1 \in bc.failed_goals
    /\ find_rules_for_goal(D1) # <<>>
    /\ bc.ret = Returns("prove_goal", FALSE)
    /\ bc.reasoning_trace # <<>>
    /\ bc.reasoning_trace[Len(bc.reasoning_trace)].type = "max_depth_reached"
    /\ bc.reasoning_trace[Len(bc.reasoning_trace)].depth = MaxDepth + 1

-----------------------------------------------------------------------------
(* C16 *)

IsEvent(i, type, goal, depth) ==
    /\ bc.reasoning_trace[i].type = type
    /\ bc.reasoning_trace[i].goal = goal
    /\ bc.reasoning_trace[i].depth = depth

\* The rules tried for goal g at depth d, in the order of the trace.
TriedRules(g, d) ==
    LET tried == SelectSeq(bc.reasoning_trace,
                           LAMBDA ev : /\ ev.type = "trying_rule"
                                       /\ ev.goal = g
                                       /\ ev.depth = d)
    IN  [k \in DOMAIN tried |-> tried[k].rule_id]

\* The rules concluding g, in the rule file's order.
RuleIds(g) == [k \in DOMAIN find_rules_for_goal(g) |-> find_rules_for_goal(g)[k].id]

\* Where rule rid was tried for g at depth d.
TryIndex(g, d, rid) ==
    CHOOSE i \in DOMAIN bc.reasoning_trace :
        IsEvent(i, "trying_rule", g, d) /\ bc.reasoning_trace[i].rule_id = rid

\* The goals proved before event i.
ProvedBefore(i) ==
    { bc.reasoning_trace[k].goal :
        k \in { n \in 1..(i - 1) :
                  bc.reasoning_trace[n].type \in
                      {"goal_proved_by_fact", "goal_proved_by_user",
                       "goal_proved_by_rule"} } }

\* Between events i and j a condition of rule r was given up at the depth
\* limit, or has not been proved by event j.
FailedBetween(r, d, i, j) ==
    \E k \in DOMAIN r.If :
        \/ r.If[k] \notin ProvedBefore(j)
        \/ \E n \in (i + 1)..(j - 1) : IsEvent(n, "max_depth_reached", r.If[k], d + 1)

\* C16: first-applicable-rule semantics.  Whenever a goal was proved by a
\* rule, the rules tried for it in that call are the rules concluding it in
\* file order up to and including the proving rule, every rule before the
\* proving one failed on one of its conditions, and no rule for the goal is
\* tried after the proof.
C16_FirstApplicableRule ==
    \A j \in DOMAIN bc.reasoning_trace :
        bc.reasoning_trace[j].type = "goal_proved_by_rule" =>
            LET g == bc.reasoning_trace[j].goal
                d == bc.reasoning_trace[j].depth
                ids == RuleIds(g)
                p == CHOOSE k \in DOMAIN ids : ids[k] = bc.reasoning_trace[j].rule_id
            IN  /\ TriedRules(g, d) = SubSeq(ids, 1, p)
                /\ \A k \in 1..p : TryIndex(g, d, ids[k]) < j
                /\ \A k \in 1..(p - 1) :
                       FailedBetween(find_rules_for_goal(g)[k], d,
                                     TryIndex(g, d, ids[k]),
                                     TryIndex(g, d, ids[k + 1]))

\* D1 has two rules; the first was tried and failed, the second proved it,
\* and the callback was asked about a condition of the first.
C16_Witness ==
    /\ Len(find_rules_for_goal(D1)) >= 2
    /\ \E j \in DOMAIN bc.reasoning_trace :
          /\ IsEvent(j, "goal_proved_by_rule", D1, 0)
          /\ bc.reasoning_trace[j].rule_id = RuleIds(D1)[2]
    /\ Len(TriedRules(D1, 0)) = 2

-----------------------------------------------------------------------------
(* C17 *)

\* The events in which a rule proved goal g.
ProofEvents(g) ==
    { j \in DOMAIN bc.reasoning_trace :
        /\ bc.reasoning_trace[j].type = "goal_proved_by_rule"
        /\ bc.reasoning_trace[j].goal = g }

\* The CFs of the rules that contributed to the proofs of the goals in todo:
\* the rules that proved them and, through their conditions, the rules that
\* proved their sub-goals.
RECURSIVE ProofCfs(_, _)
ProofCfs(todo, seen) ==
    IF todo = {} THEN {}
    ELSE LET g == CHOOSE x \in todo : TRUE
             conds == UNION { Range(RuleById(bc.reasoning_trace[j].rule_id).If) :
                              j \in ProofEvents(g) }
         IN  { bc.reasoning_trace[j].cf : j \in ProofEvents(g) }
                 \cup ProofCfs((todo \cup conds) \ (seen \cup {g}), seen \cup {g})

\* The minimum of a set of CFs, 1.0 for the empty set.
MinCf(cfs) == IF cfs = {} THEN 100 ELSE CHOOSE c \in cfs : \A x \in cfs : c <= x

\* C17: the confidence backward_chain reports for a proved goal is the
\* minimum CF among all rules that contributed to its proof, the rules that
\* proved its sub-goals included; 1.0 when no rule contributed.
C17_ConfidenceIsMinOverProof ==
    BackwardChainReturned =>
        \A k \in DOMAIN bc.ret.value.proved_goals :
            bc.ret.value.proved_goals[k].confidence =
                MinCf(ProofCfs({bc.ret.value.proved_goals[k].goal}, {}))

-----------------------------------------------------------------------------
(* C18 *)

\* The combination the specification gives, with its own case split.
SpecifiedCombination(cf1, cf2) ==
    IF ~FLess(cf1, Zero) /\ ~FLess(cf2, Zero)
    THEN FAdd(cf1, FMul(cf2, FSub(One, cf1)))
    ELSE IF FLess(cf1, Zero) /\ FLess(cf2, Zero)
    THEN FAdd(cf1, FMul(cf2, FAdd(One, cf1)))
    ELSE IF FSub(One, FMin(FAbs(cf1), FAbs(cf2))) = Zero
    THEN Zero
    ELSE FDiv(FAdd(cf1, cf2), FSub(One, FMin(FAbs(cf1), FAbs(cf2))))

\* C18: on the grid of certainty factors in [-1, 1] combine_sequential_cf
\* returns cf1 + cf2*(1 - cf1) when both are >= 0, cf1 + cf2*(1 + cf1) when
\* both are < 0, and (cf1 + cf2)/(1 - min(|cf1|, |cf2|)) otherwise, 0 when
\* that denominator is 0; combine(0.8, 0.6) = 0.92 and combine(cf, 0) = cf
\* for cf >= 0.
C18_CombineSequentialFormula ==
    /\ calc.op = "combine_sequential_cf" =>
          /\ calc.result = Returned_(SpecifiedCombination(calc.cf1, calc.cf2))
          /\ (calc.cf2 = Zero /\ ~FLess(calc.cf1, Zero))
                => calc.result = Returned_(calc.cf1)
    /\ combine_sequential_cf(Frac(8, 10), Frac(6, 10)) = Frac(92, 100)

\* combine_sequential_cf(1, -1) was called: the denominator is 0 and the
\* result is 0.
C18_Witness ==
    /\ calc.op = "combine_sequential_cf"
    /\ calc.cf1 = One
    /\ calc.cf2 = Frac(-1, 1)
    /\ calc.result = Returned_(Zero)

-----------------------------------------------------------------------------
(* C19 *)

\* The left fold of combine_sequential_cf over a non-empty list:
\* ((l[1] + l[2]) + ...) + l[n], by recursion on the list without its last
\* element.
RECURSIVE LeftFold(_)
LeftFold(l) ==
    IF Len(l) = 1 THEN l[1]
    ELSE combine_sequential_cf(LeftFold(SubSeq(l, 1, Len(l) - 1)), l[Len(l)])

Products(rule_cfs, user_cfs) ==
    [i \in DOMAIN rule_cfs |-> FMul(rule_cfs[i], user_cfs[i])]

\* C19: combine_parallel_cf is the left fold of combine_sequential_cf in
\* input order, the element itself for a one-element list and 0 for the
\* empty list; calculate_hypothesis_cf is that fold over the pairwise
\* products rule_cf * user_cf.
C19_ParallelIsLeftFold ==
    /\ calc.op = "combine_parallel_cf" =>
          /\ calc.cf_list = <<>> => calc.result = Returned_(Zero)
          /\ Len(calc.cf_list) = 1 => calc.result = Returned_(calc.cf_list[1])
          /\ calc.cf_list # <<>> => calc.result = Returned_(LeftFold(calc.cf_list))
    /\ (calc.op = "calculate_hypothesis_cf" /\ Len(calc.rule_cfs) = Len(calc.user_cfs)) =>
          /\ calc.rule_cfs = <<>> => calc.result = Returned_(Zero)
          /\ calc.rule_cfs # <<>> =>
                calc.result = Returned_(LeftFold(Products(calc.rule_cfs, calc.user_cfs)))

\* combine_parallel_cf was called on three factors of mixed sign for which
\* the order of combination matters.
C19_Witness ==
    /\ calc.op = "combine_parallel_cf"
    /\ Len(calc.cf_list) = 3
    /\ calc.result # Returned_(combine_parallel_cf_backwards(calc.cf_list))

-----------------------------------------------------------------------------
(* C20 *)

\* forward_chain returned without having fired a rule and with no diagnosis.
ForwardReportsNothing ==
    pc = "returned" =>
        /\ fired_rules = <<>>
        /\ results[1].final_diagnoses = <<>>

\* backward_chain reported as failed every goal that is neither a known fact
\* nor confirmed by the oracle.
BackwardReportsFailures ==
    BackwardChainReturned =>
        \A k \in DOMAIN bc.ret.value.goals :
            LET g == bc.ret.value.goals[k]
            IN  g \notin bc.working_memory /\ ~OracleConfirmed(g) =>
                    \E i \in DOMAIN bc.ret.value.failed_goals :
                        bc.ret.value.failed_goals[i].goal = g

\* C20: a missing or malformed rule file does not crash either engine:
\* construction raises nothing and yields an empty rule set, forward_chain
\* then fires no rule and reports zero diagnoses, and backward_chain reports
\* as failed every goal that is neither a known fact nor confirmed by the
\* oracle.
C20_BrokenRuleFileDegrades ==
    construction.file \in {"missing", "not_utf8", "not_json"} =>
        /\ construction.raised = ""
        /\ rules = <<>>
        /\ ForwardReportsNothing
        /\ BackwardReportsFailures

-----------------------------------------------------------------------------
(* C21 *)

\* A step of the forward engine that is not reset() keeps the events of the
\* trace in place and adds only at the end.
ForwardTraceExtended == Reset \/ IsPrefix(reasoning_trace, reasoning_trace')

\* The same for a step of the backward engine.
BackwardTraceExtended ==
    BCReset \/ IsPrefix(bc.reasoning_trace, bc'.reasoning_trace)

\* C21: the reasoning trace is append-only within a session: every
\* operation other than reset (add_facts, fire_rule, forward_chain,
\* prove_goal, backward_chain) leaves the existing trace events unchanged
\* and in place and only appends new events at the end.
C21_TraceAppendOnly ==
    [][ForwardTraceExtended /\ BackwardTraceExtended]_vars

\* A trace to which a call appended after an earlier call had appended an
\* event of another kind, in either engine.
C21_Witness ==
    \/ /\ Len(reasoning_trace) >= 2
       /\ reasoning_trace[1].type = "fact_added"
       /\ reasoning_trace[Len(reasoning_trace)].type = "rule_fired"
       /\ pc = "returned"
    \/ /\ Len(bc.reasoning_trace) >= 2
       /\ bc.reasoning_trace[1].type = "fact_added"
       /\ bc.reasoning_trace[Len(bc.reasoning_trace)].type = "goal_proved_by_rule"

-----------------------------------------------------------------------------
(* C22 *)

\* Goals with a memoized verdict.
Memoized == bc.proved_goals \cup bc.failed_goals

\* The verdict prove_goal reads for a memoized goal: proved_goals is looked
\* up first.
CachedVerdict(g) == g \in bc.proved_goals

\* prove_goal on a memoized goal, at any depth up to max_depth, gives the
\* engine back as it was, with the cached verdict.
MemoizedGoalAnswered ==
    \A g \in Memoized, depth \in 0..MaxDepth, yes \in Answers :
        prove_goal(bc, g, depth, MaxDepth, yes) =
            [eng |-> bc, ret |-> CachedVerdict(g)]

\* A call prove_goal(g) of the caller on a memoized goal changes nothing
\* but what the caller was returned, and the callback is not called.
MemoizedGoalCallFrame ==
    \A g \in Goals, yes \in Answers :
        (g \in Memoized /\ ProveGoalCall(g, 0, MaxDepth, yes)) =>
            /\ bc' = [bc EXCEPT !.ret = Returns("prove_goal", CachedVerdict(g))]
            /\ bc'.oracle_calls = bc.oracle_calls

\* C22: prove_goal(g) with depth <= max_depth on a goal already in
\* proved_goals or failed_goals returns the cached verdict without
\* recomputation: working_memory, proved_goals, failed_goals,
\* asked_questions and the reasoning trace stay as they are and the oracle
\* is not invoked.
C22_MemoizedVerdictReturned ==
    /\ [](MemoizedGoalAnswered)
    /\ [][MemoizedGoalCallFrame]_vars

\* The trying_rule events of the trace for goal g.
Tries(g) ==
    { i \in DOMAIN bc.reasoning_trace :
        /\ bc.reasoning_trace[i].type = "trying_rule"
        /\ bc.reasoning_trace[i].goal = g }

\* backward_chain([D1, D1]) failed D1 twice having tried its one rule once:
\* the second prove_goal(D1) answered from failed_goals.
C22_Witness ==
    /\ BackwardChainReturned
    /\ bc.ret.value.goals = <<D1, D1>>
    /\ Len(bc.ret.value.failed_goals) = 2
    /\ Len(find_rules_for_goal(D1)) = 1
    /\ Cardinality(Tries(D1)) = 1

-----------------------------------------------------------------------------
(* C23 *)

\* No goal that a rule concludes has been put to the callback.
AskedOnlyWithoutRules ==
    \A q \in Range(bc.oracle_calls) : find_rules_for_goal(q) = <<>>

\* The goals a step puts to the callback.
NewlyAsked == Range(bc'.oracle_calls) \ Range(bc.oracle_calls)

\* A goal put to the callback was not memoized and not a known fact.
AskedOnlyWhenUnknown ==
    \A q \in NewlyAsked :
        q \notin bc.proved_goals \cup bc.failed_goals \cup bc.working_memory

\* What asking left behind: a goal the callback confirmed is a known fact
\* and proved; a goal it denied, or one asked with no callback set, is
\* failed.
AnswersRecorded ==
    \A q \in bc.asked_questions :
        IF OracleConfirmed(q)
        THEN q \in bc.working_memory /\ q \in bc.proved_goals
        ELSE q \in bc.failed_goals

\* A caller's prove_goal(g) on a goal that is not memoized, not a known
\* fact and concluded by no rule asks: the callback, if one is set, is
\* called with g, and g is then proved and known, or failed.
UnknownGoalAsked ==
    \A g \in Goals, yes \in Answers :
        ( /\ g \notin Memoized \cup bc.working_memory \cup bc.asked_questions
          /\ find_rules_for_goal(g) = <<>>
          /\ ProveGoalCall(g, 0, MaxDepth, yes) ) =>
            /\ bc'.oracle_calls =
                  IF bc.question_callback THEN Append(bc.oracle_calls, g)
                                          ELSE bc.oracle_calls
            /\ IF bc.question_callback /\ g \in yes
               THEN /\ g \in bc'.working_memory /\ g \in bc'.proved_goals
                    /\ bc'.ret.value
               ELSE /\ g \in bc'.failed_goals
                    /\ ~bc'.ret.value

\* C23: prove_goal invokes the oracle for goal g only when g is not
\* memoized, not in working memory, and no rule concludes g (a goal with
\* concluding rules is never asked, even when all of them fail); a True
\* answer puts g into both working_memory and proved_goals, and a False
\* answer or an absent callback puts g into failed_goals.
C23_OracleOnlyForUnknownLeaves ==
    /\ [](AskedOnlyWithoutRules /\ AnswersRecorded)
    /\ [][AskedOnlyWhenUnknown /\ UnknownGoalAsked]_vars

\* The callback confirmed S1 and denied S2 while the one rule that
\* concludes D1 was tried; D1, which has a rule, was not asked.
C23_Witness ==
    /\ bc.oracle_calls = <<S1, S2>>
    /\ OracleConfirmed(S1) /\ ~OracleConfirmed(S2)
    /\ S1 \in bc.working_memory \cap bc.proved_goals
    /\ S2 \in bc.failed_goals
    /\ D1 \in bc.failed_goals

-----------------------------------------------------------------------------
(* C24 *)

\* The events a step appends to the trace.
NewEvents ==
    { bc'.reasoning_trace[i] :
        i \in (Len(bc.reasoning_trace) + 1)..Len(bc'.reasoning_trace) }

\* The levels of recursion the events show: prove_goal records its depth
\* in every event it appends, and a rule loop at depth d, which calls
\* prove_goal at depth d + 1, first appends a trying_rule event of depth d.
WithinDepth(events, max_depth) ==
    \A ev \in events :
        /\ "depth" \in DOMAIN ev => ev.depth <= max_depth + 1
        /\ ev.type = "trying_rule" => ev.depth <= max_depth

\* prove_goal ends with a boolean, whatever the rules and the answers.
VerdictIsBoolean ==
    \A g \in Goals, yes \in Answers :
        prove_goal(bc, g, 0, MaxDepth, yes).ret \in BOOLEAN

\* A call stays within max_depth + 1 levels: a caller's prove_goal is given
\* max_depth = MaxDepth, backward_chain leaves it at its default.
CallsWithinDepth ==
    /\ bc'.ret.op = "prove_goal" =>
          /\ bc'.ret.value \in BOOLEAN
          /\ WithinDepth(NewEvents, MaxDepth)
    /\ bc'.ret.op = "backward_chain" => WithinDepth(NewEvents, DefaultMaxDepth)

\* C24: for every finite rule set, cyclic ones included, and every oracle
\* that answers, prove_goal(g) terminates with a boolean verdict and never
\* recurses to a depth greater than max_depth + 1.
C24_TerminatesWithinDepth ==
    /\ [](VerdictIsBoolean)
    /\ [][CallsWithinDepth]_vars

\* On the cycle D1 <- D3 <- D1 prove_goal(D1) went down to the level
\* max_depth + 1, was turned back there, and returned False.
C24_Witness ==
    /\ bc.ret = Returns("prove_goal", FALSE)
    /\ \E i, j \in DOMAIN bc.reasoning_trace :
          /\ bc.reasoning_trace[i].type = "trying_rule"
          /\ bc.reasoning_trace[i].depth = MaxDepth
          /\ j = i + 1
          /\ bc.reasoning_trace[j] =
                 MaxDepthReached(bc.reasoning_trace[i].conditions[1], MaxDepth + 1)

-----------------------------------------------------------------------------
(* C25 *)

\* get_statistics(): the three counts of goals.
get_statistics(e) ==
    [total_goals_attempted |->
         Cardinality(e.proved_goals) + Cardinality(e.failed_goals),
     proved_goals |-> Cardinality(e.proved_goals),
     failed_goals |-> Cardinality(e.failed_goals)]

\* C25: in every state reachable by add_facts, prove_goal and
\* backward_chain calls, proved_goals and failed_goals are disjoint, so
\* get_statistics counts no goal both as proved and as failed.
C25_ProvedAndFailedDisjoint ==
    /\ bc.proved_goals \cap bc.failed_goals = {}
    /\ get_statistics(bc).total_goals_attempted =
           Cardinality(bc.proved_goals \cup bc.failed_goals)

-----------------------------------------------------------------------------
(* C26 *)

\* Goal g is a known fact or the consequent of a rule whose antecedents are
\* all proved.
Justified(g) ==
    \/ g \in bc.working_memory
    \/ \E r \in Range(rules) :
          r.Then = g /\ Range(r.If) \subseteq bc.proved_goals

\* C26: proved goals are soundly justified: in every reachable state each
\* goal in proved_goals is in working_memory or is the consequent of some
\* rule all of whose antecedents are in proved_goals, and the
\* justifications are well-founded: every proved goal is derivable from
\* the known facts by the rules, none only through a cycle that leads back
\* to itself.
C26_ProvedGoalsJustified ==
    /\ \A g \in bc.proved_goals : Justified(g)
    /\ bc.proved_goals \subseteq Closure(bc.working_memory, rules)

\* With the cycle D1 <- D3 <- D1 in the rule file, D3 was proved from D1
\* and D1 from two facts.
C26_Witness ==
    /\ {D1, D3} \subseteq bc.proved_goals
    /\ {D1, D3} \cap bc.working_memory = {}
    /\ D3 \in ReachableFrom({D1}, rules) /\ D1 \in ReachableFrom({D3}, rules)

-----------------------------------------------------------------------------
(* C27 *)

\* The passes made so far by the call in progress, or by the call that
\* returned, are within both bounds.
PassesBounded ==
    pc \in {"while", "returned"} =>
        /\ iteration <= Min(max_iterations, Len(rules) + 1)
        /\ Returned => results[1].iterations = iteration

\* A call with max_iterations = 0 makes no pass and fires no rule.
NoPassAtZero ==
    (pc = "while" /\ max_iterations = 0) =>
        /\ ~ForwardChainPass
        /\ fired_rules' = fired_rules
        /\ iteration' = 0

\* C27: forward_chain terminates for every finite rule set, cyclic ones
\* included, independently of max_iterations: the number of passes it
\* performs (the returned iterations) is at most
\* min(max_iterations, number of rules + 1), and with max_iterations = 0 it
\* performs no pass and fires no rule.
C27_TerminatesWithinRules ==
    /\ [](PassesBounded)
    /\ [][NoPassAtZero]_vars
    /\ (pc = "while") ~> Returned

\* A call with the default max_iterations on a cyclic rule file returned
\* after one pass more than there are rules.
C27_Witness ==
    /\ Returned
    /\ ~Acyclic(rules)
    /\ max_iterations = DefaultMaxIterations
    /\ results[1].iterations = Len(rules) + 1

-----------------------------------------------------------------------------
(* C28 *)

\* forward_chain returned before reaching max_iterations, on a rule file
\* whose consequents are all non-empty.
ReturnedAtFixpoint ==
    /\ Returned
    /\ results[1].iterations < max_iterations
    /\ NonEmptyConsequents(rules)

\* C28: completeness at the fixpoint: whenever forward_chain returns with
\* iterations < max_iterations (rules having non-empty consequents), every
\* rule whose antecedents are all in working_memory \cup inferred_facts is
\* in fired_rules: no applicable rule is left unfired, and every fact
\* derivable from the known facts is known or inferred.  Where every fired
\* rule was fired on satisfied antecedents, the known and inferred facts
\* are exactly the closure of the known facts under the rules.
C28_CompleteAtFixpoint ==
    ReturnedAtFixpoint =>
        /\ AllApplicableFired
        /\ Closure(working_memory, rules)
             \subseteq working_memory \cup results[1].inferred_facts
        /\ DerivedFromKnownFacts =>
               working_memory \cup inferred_facts = Closure(working_memory, rules)

\* A run on a cyclic rule file returned before max_iterations having fired
\* every rule of the file, one of them on an inferred fact.
C28_Witness ==
    /\ ReturnedAtFixpoint
    /\ ~Acyclic(rules)
    /\ DerivedFromKnownFacts
    /\ Len(fired_rules) = Len(rules)
    /\ Len(rules) = MaxRules

-----------------------------------------------------------------------------
(* C29 *)

\* C29: the result returned by forward_chain is a stable snapshot: later
\* operations on the same engine (add_facts, another forward_chain, reset)
\* do not change the fired_rules list, the reasoning_trace, the
\* inferred_facts or the diagnosis_scores held by a previously returned
\* result.
C29_ResultIsSnapshot ==
    held # <<>> => ResultRead(held[1]) = held[1]

-----------------------------------------------------------------------------
(* C30 *)

\* C30: the module-level combine_certainty_factors and
\* CertaintyFactor.combine_sequential_cf are equivalent: for every pair
\* (cf1, cf2) in [-1, 1] x [-1, 1] both return the same value and neither
\* fails, the mixed-sign pairs with min(|cf1|, |cf2|) = 1 included.
C30_CombineFunctionsEquivalent ==
    /\ calc.op = "combine_certainty_factors" =>
          calc.result = Returned_(combine_sequential_cf(calc.cf1, calc.cf2))
    /\ calc.op = "combine_sequential_cf" =>
          calc.result = combine_certainty_factors(calc.cf1, calc.cf2)

-----------------------------------------------------------------------------
(* C8 *)

NonEmptyAntecedents(rs) == \A r \in Range(rs) : r.If # <<>>

\* C8: with no known fact, forward_chain fires no rule and returns an empty
\* final_diagnoses list, whenever every rule has a non-empty antecedent list.
C8_EmptyFactsNoDiagnosis ==
    (Returned /\ working_memory = {} /\ NonEmptyAntecedents(rules))
        => /\ fired_rules = <<>>
           /\ results[1].inferred_facts = {}
           /\ results[1].final_diagnoses = <<>>

\* forward_chain() returned on three rules and no fact.
C8_Witness ==
    /\ Returned
    /\ working_memory = {}
    /\ NonEmptyAntecedents(rules)
    /\ Len(rules) >= 3
    /\ max_iterations = DefaultMaxIterations
    /\ results[1].iterations = 1

-----------------------------------------------------------------------------
(* C9 *)

FinalDiagnoses == results[1].final_diagnoses

\* A rule as the knowledge base accepts it: antecedents and a consequent.
WellFormed(r) == r.If # <<>> /\ r.Then # ""

\* C9: after reset, add_facts(S) and forward_chain(), every consequent of a
\* rule whose antecedents are all in S is in the returned final_diagnoses,
\* with confidence at least min(CF of the rule, 1.0).
C9_DirectConsequentsDiagnosed ==
    (Returned /\ max_iterations = DefaultMaxIterations)
        => \A r \in {q \in Range(rules) : WellFormed(q)} :
              Range(r.If) \subseteq working_memory
                 => \E i \in DOMAIN FinalDiagnoses :
                       /\ FinalDiagnoses[i].diagnosis = r.Then
                       /\ FinalDiagnoses[i].confidence >= Min(r.Cf, 100)

-----------------------------------------------------------------------------
(* C10 *)

\* The position of diagnosis d in diagnosis_scores.
ScoredAt(ds, d) == CHOOSE i \in DOMAIN ds : ds[i].diagnosis = d

====
